---- MODULE Spec2Model ----
(***************************************************************************)
(* Model of datasync_setup_optimized.py: cross-account S3 migration setup  *)
(* (IAM role reuse, bucket-policy merge, policy backup, DataSync location  *)
(* and task creation with rollback, bounded retry on throttling).          *)
(***************************************************************************)
EXTENDS Integers, Sequences, FiniteSets, TLC

VARIABLES
    pc,                \* position of main() (or of the function under test)
    dry_run,           \* args.dry_run
    idx,               \* loop index of "for idx, mig in enumerate(migrations, 1)"
    role_exists,       \* remote IAM: the role exists
    role_has_policy,   \* remote IAM: the inline permission document is attached
    iam_result,        \* value returned by setup_iam: (role_arn, created)
    policies,          \* remote S3: bucket -> policy text (or absent)
    policy0,           \* bucket policies before the run (never modified)
    backups,           \* local disk: migration -> files of its backup directory
    snap,              \* what backup_policies learnt per bucket, current migration
    locations,         \* remote DataSync: existing locations
    tasks,             \* remote DataSync: existing tasks
    created_resources, \* create_datasync's rollback list
    step,              \* creation step of create_datasync (1, 2, 3)
    attempt,           \* loop index of retry_with_backoff
    outcomes,          \* what func() answered in the current retry_with_backoff
    slept,             \* waits of the current retry_with_backoff, in order
    err,               \* exception being propagated / last raised
    deletes,           \* delete_location calls issued by the current rollback
    results,           \* main's results list
    issued,            \* remote calls issued so far: <<operation, migration, bucket type>>
    exit_status,       \* sys.exit status
    max_retries,       \* retry_with_backoff's max_retries argument
    retry_result,      \* how the retry_with_backoff under test ended
    merge_count,       \* completed update_policy calls of the merge harness
    after_first,       \* bucket policy after the first completed update_policy
    failed,            \* index of the migration whose exception main caught (0: none)
    lookup,            \* what iam.get_role answered in setup_iam
    verify,            \* last verify_bucket_access call: probe answer and result
    role_scope         \* buckets named by the permission document this run attached

vars == <<pc, dry_run, idx, role_exists, role_has_policy, iam_result, policies,
          policy0, backups, snap, locations, tasks, created_resources, step,
          attempt, outcomes, slept, err, deletes, results, issued,
          exit_status, max_retries, retry_result, merge_count, after_first,
          failed, lookup, verify, role_scope>>

----------------------------------------------------------------------------
(* Bounds *)

NumMigs == 3
MaxStmts == 3
MaxRetriesBound == 4
MaxMergeCalls == 3

(* Program constants *)

DefaultMaxRetries == 3
DefaultBackoff == 2

----------------------------------------------------------------------------
(* Data *)

Typs == {"source", "dest"}
Migs == 1 .. NumMigs
Buckets == Migs \X Typs

RoleArn == "arn:aws:iam::acct:role/datasync"

ThrottleCodes == {"Throttling", "RequestLimitExceeded", "TooManyRequestsException"}
\* botocore ClientError codes that are not throttling
OtherClientCodes == {"AccessDenied"}
ClientErrorCodes == ThrottleCodes \cup OtherClientCodes
\* exceptions that are not botocore ClientError (e.g. EndpointConnectionError)
NonClientErrors == {"ConnectionError"}

NoErr == [op |-> "none", code |-> "none"]
Error(op, code) == [op |-> op, code |-> code]

ds_sids == {"DataSyncAllowBucketAccess", "DataSyncAllowObjectAccess"}
NoSid == "<no Sid>"

Stmt(sid, principal, bucket, objects) ==
    [Sid |-> sid, Principal |-> principal, Bucket |-> bucket, Objects |-> objects]

ds_stmts(bucket, role_arn) ==
    << Stmt("DataSyncAllowBucketAccess", role_arn, bucket, FALSE),
       Stmt("DataSyncAllowObjectAccess", role_arn, bucket, TRUE) >>

\* a policy document: Statement is a list, a single object, or missing
Doc(version, form, items) == [Version |-> version, form |-> form, items |-> items]
EmptyDoc == Doc("2012-10-17", "list", <<>>)

\* a policy text (bucket policy or backup file); fmt is its JSON layout
Absent == [present |-> FALSE, fmt |-> "-", doc |-> EmptyDoc]
Text(fmt, doc) == [present |-> TRUE, fmt |-> fmt, doc |-> doc]

json_loads(text) == text.doc
json_dumps(doc) == Text("compact", doc)
json_dumps_indent2(doc) == Text("indent2", doc)

----------------------------------------------------------------------------
(* update_policy *)

\* faulty merge: statements without a Sid are dropped with the owned ones
MergeStatements_dropNoSid(doc, bucket, role_arn) ==
    LET old == IF doc.form = "missing" THEN <<>> ELSE doc.items
    IN  Doc(doc.Version, "list",
            SelectSeq(old, LAMBDA s : s.Sid \notin ds_sids \cup {NoSid})
                \o ds_stmts(bucket, role_arn))

\* faulty merge: the owned statements are appended without filtering old ones
MergeStatements_append(doc, bucket, role_arn) ==
    LET old == IF doc.form = "missing" THEN <<>> ELSE doc.items
    IN  Doc(doc.Version, "list", old \o ds_stmts(bucket, role_arn))

\* pol.get("Statement", []) filtered by Sid, plus ds_stmts
MergeStatements(doc, bucket, role_arn) ==
    LET old == IF doc.form = "missing" THEN <<>> ELSE doc.items
    IN  Doc(doc.Version, "list",
            SelectSeq(old, LAMBDA s : s.Sid \notin ds_sids) \o ds_stmts(bucket, role_arn))

\* faulty merge: a bucket without a policy is an error
update_policy_absent_raises(pols, b, role_arn, dry, getOut, putOut) ==
    IF dry THEN [raised |-> NoErr, policies |-> pols, ops |-> {}]
    ELSE IF getOut # "ok" \/ ~pols[b].present
    THEN [raised |-> Error("get_bucket_policy",
                           IF getOut # "ok" THEN getOut ELSE "NoSuchBucketPolicy"),
          policies |-> pols, ops |-> {"get_bucket_policy"}]
    ELSE LET pol == json_loads(pols[b])
         IN  IF pol.form = "object"
             THEN [raised |-> Error("update_policy", "AttributeError"),
                   policies |-> pols, ops |-> {"get_bucket_policy"}]
             ELSE IF putOut # "ok"
             THEN [raised |-> Error("put_bucket_policy", putOut), policies |-> pols,
                   ops |-> {"get_bucket_policy", "put_bucket_policy"}]
             ELSE [raised |-> NoErr,
                   policies |-> [pols EXCEPT ![b] =
                                    json_dumps(MergeStatements(pol, b, role_arn))],
                   ops |-> {"get_bucket_policy", "put_bucket_policy"}]

\* One call of update_policy on bucket b; getOut/putOut are what the two
\* remote calls answer.  Result: the error raised (NoErr if it returned),
\* the bucket policies afterwards and the remote operations issued.
update_policy(pols, b, role_arn, dry, getOut, putOut) ==
    IF dry THEN [raised |-> NoErr, policies |-> pols, ops |-> {}]
    ELSE IF getOut # "ok"
    THEN [raised |-> Error("get_bucket_policy", getOut), policies |-> pols,
          ops |-> {"get_bucket_policy"}]
    ELSE LET pol == IF pols[b].present THEN json_loads(pols[b]) ELSE EmptyDoc
         IN  IF pol.form = "object"
             THEN [raised |-> Error("update_policy", "AttributeError"),
                   policies |-> pols, ops |-> {"get_bucket_policy"}]
             ELSE IF putOut # "ok"
             THEN [raised |-> Error("put_bucket_policy", putOut), policies |-> pols,
                   ops |-> {"get_bucket_policy", "put_bucket_policy"}]
             ELSE [raised |-> NoErr,
                   policies |-> [pols EXCEPT ![b] =
                                    json_dumps(MergeStatements(pol, b, role_arn))],
                   ops |-> {"get_bucket_policy", "put_bucket_policy"}]

----------------------------------------------------------------------------
(* retry_with_backoff *)

RECURSIVE Pow(_, _)
Pow(b, e) == IF e = 0 THEN 1 ELSE b * Pow(b, e - 1)

\* faulty retry: "attempt < max_retries" lets the last throttle be swallowed
retry_with_backoff_offbyone(att, maxr, out) ==
    IF out = "ok" THEN [next |-> "return", wait |-> 0]
    ELSE IF out \in ClientErrorCodes /\ out \in ThrottleCodes /\ att < maxr
    THEN [next |-> "continue", wait |-> Pow(DefaultBackoff, att)]
    ELSE [next |-> "raise", wait |-> 0]

\* One iteration of "for attempt in range(max_retries)": func() answered out.
retry_with_backoff(att, maxr, out) ==
    IF out = "ok" THEN [next |-> "return", wait |-> 0]
    ELSE IF out \in ClientErrorCodes /\ out \in ThrottleCodes /\ att < maxr - 1
    THEN [next |-> "continue", wait |-> Pow(DefaultBackoff, att)]
    ELSE [next |-> "raise", wait |-> 0]

----------------------------------------------------------------------------
(* verify_bucket_access *)

HeadOutcomes == {"ok", "404", "403"} \cup OtherClientCodes \cup NonClientErrors

\* faulty verifier: a ClientError other than 404/403 is re-raised
verify_bucket_access_raises_unknown(out) ==
    IF out = "ok" THEN [ret |-> TRUE, raised |-> NoErr]
    ELSE IF out \in {"404", "403"} THEN [ret |-> FALSE, raised |-> NoErr]
    ELSE [ret |-> FALSE, raised |-> Error("head_bucket", out)]

verify_bucket_access(out) ==
    IF out = "ok" THEN [ret |-> TRUE, raised |-> NoErr]
    ELSE IF out \in {"404", "403"} \cup ClientErrorCodes
    THEN [ret |-> FALSE, raised |-> NoErr]
    ELSE [ret |-> FALSE, raised |-> Error("head_bucket", out)]

----------------------------------------------------------------------------
(* Initial states *)

NoResult == [arn |-> "none", created |-> FALSE]
NoBackup == [source |-> Absent, dest |-> Absent, restore |-> FALSE]
NoSnap == [t \in Typs |-> "none"]

AllowCI(b) == Stmt("AllowCI", "ci-role", b, FALSE)
NoSidStmt(b) == Stmt(NoSid, "app-role", b, TRUE)
StaleBucketStmt(b) == Stmt("DataSyncAllowBucketAccess", "old-role", b, FALSE)
CurrentObjectStmt(b) == Stmt("DataSyncAllowObjectAccess", RoleArn, b, TRUE)

NoVerify == [out |-> "none", ret |-> FALSE, raised |-> NoErr]
NoScope == [src |-> {}, dst |-> {}]

\* the state of the process before main() runs
LocalInit ==
    /\ idx = 1
    /\ iam_result = NoResult
    /\ backups = [i \in Migs |-> NoBackup]
    /\ snap = NoSnap
    /\ created_resources = <<>>
    /\ step = 0
    /\ attempt = 0
    /\ outcomes = <<>>
    /\ slept = <<>>
    /\ err = NoErr
    /\ deletes = <<>>
    /\ results = <<>>
    /\ issued = {}
    /\ exit_status = -1
    /\ retry_result = "none"
    /\ merge_count = 0
    /\ after_first = Absent
    /\ failed = 0
    /\ lookup = "none"
    /\ verify = NoVerify
    /\ role_scope = NoScope

\* a policy with a foreign and a stale system statement
RunPolicy(b) == Text("raw", Doc("2012-10-17", "list", <<AllowCI(b), StaleBucketStmt(b)>>))

\* the initial bucket policies of a run: the source buckets all have a policy
\* or none has, and so for the destination buckets
RunPolicyMaps ==
    {[b \in Buckets |-> IF has[b[2]] THEN RunPolicy(b) ELSE Absent] :
        has \in [Typs -> BOOLEAN]}

Init ==
    /\ LocalInit
    /\ pc = "start"
    /\ dry_run \in BOOLEAN
    /\ role_exists \in BOOLEAN
    /\ role_has_policy \in (IF role_exists THEN BOOLEAN ELSE {FALSE})
    /\ policies \in RunPolicyMaps
    /\ max_retries = DefaultMaxRetries
    /\ policy0 = policies
    /\ locations = {}
    /\ tasks = {}

----------------------------------------------------------------------------
(* main: startup and setup_iam *)

\* faulty exit: every way out of main reports status 1
Exit_always_one(status) == pc' = "done" /\ exit_status' = 1

Exit(status) == pc' = "done" /\ exit_status' = status

\* load_config, sessions, clients, get_caller_identity
Startup ==
    /\ pc = "start"
    /\ \E ok \in BOOLEAN :
          IF ok THEN pc' = "iam_get" /\ UNCHANGED <<exit_status, err>>
          ELSE Exit(1) /\ err' = Error("startup", "Exception")
    /\ UNCHANGED <<dry_run, idx, role_exists, role_has_policy, iam_result, policies,
                   policy0, backups, snap, locations, tasks, created_resources,
                   step, attempt, outcomes, slept, deletes, results, issued,
                   max_retries, retry_result, merge_count, after_first, failed, lookup, verify, role_scope>>

\* faulty lookup: a role that was found is provisioned again
role_lookup_recreate(out, exists, dry) ==
    IF out = "ok" THEN
         (IF dry THEN [next |-> "return", created |-> TRUE]
                 ELSE [next |-> "create", created |-> FALSE])
    ELSE [next |-> "raise", created |-> FALSE]

\* faulty lookup: every error of get_role is taken for "no such role"
role_lookup_ignore_error(out, exists, dry) ==
    IF out = "ok" /\ exists THEN [next |-> "return", created |-> FALSE]
    ELSE IF dry THEN [next |-> "return", created |-> TRUE]
    ELSE [next |-> "create", created |-> FALSE]

\* what setup_iam does with the answer of iam.get_role
role_lookup(out, exists, dry) ==
    IF out = "ok" /\ exists THEN [next |-> "return", created |-> FALSE]
    ELSE IF out = "ok" THEN
         (IF dry THEN [next |-> "return", created |-> TRUE]
                 ELSE [next |-> "create", created |-> FALSE])
    ELSE [next |-> "raise", created |-> FALSE]

IamGetRole ==
    /\ pc = "iam_get"
    /\ issued' = issued \cup {<<"get_role", 0, "-">>}
    /\ \E out \in {"ok"} \cup OtherClientCodes \cup NonClientErrors :
          LET r == role_lookup(out, role_exists, dry_run) IN
          /\ lookup' = IF out # "ok" THEN "error"
                        ELSE IF role_exists THEN "found" ELSE "no_such_entity"
          /\ CASE r.next = "return" ->
                  /\ iam_result' = [arn |-> RoleArn, created |-> r.created]
                  /\ pc' = "loop"
                  /\ UNCHANGED <<exit_status, err>>
            [] r.next = "create" ->
                  /\ pc' = "iam_create"
                  /\ UNCHANGED <<iam_result, exit_status, err>>
            [] r.next = "raise" ->
                  /\ Exit(1)
                  /\ err' = Error("get_role", out)
                  /\ UNCHANGED iam_result
    /\ UNCHANGED <<dry_run, idx, role_exists, role_has_policy, policies,
                   policy0, backups, snap, locations, tasks, created_resources,
                   step, attempt, outcomes, slept, deletes, results,
                   max_retries, retry_result, merge_count, after_first, failed,
                   verify, role_scope>>

MutOutcomes == {"ok", "Throttling", "AccessDenied"}

IamCreateRole ==
    /\ pc = "iam_create"
    /\ issued' = issued \cup {<<"create_role", 0, "-">>}
    /\ \E out \in MutOutcomes :
          IF out = "ok"
          THEN /\ role_exists' = TRUE
               /\ pc' = "iam_put"
               /\ UNCHANGED <<exit_status, err>>
          ELSE /\ Exit(1)
               /\ err' = Error("create_role", out)
               /\ UNCHANGED role_exists
    /\ UNCHANGED <<dry_run, idx, role_has_policy, iam_result, policies,
                   policy0, backups, snap, locations, tasks, created_resources,
                   step, attempt, outcomes, slept, deletes, results,
                   max_retries, retry_result, merge_count, after_first, failed, lookup, verify, role_scope>>

\* the Resource lists of the permission document: every migration's buckets
role_policy_resources ==
    [src |-> {b \in Buckets : b[2] = "source"}, dst |-> {b \in Buckets : b[2] = "dest"}]

IamPutRolePolicy ==
    /\ pc = "iam_put"
    /\ issued' = issued \cup {<<"put_role_policy", 0, "-">>}
    /\ \E out \in MutOutcomes :
          IF out = "ok"
          THEN /\ role_has_policy' = TRUE
               /\ role_scope' = role_policy_resources
               /\ iam_result' = [arn |-> RoleArn, created |-> TRUE]
               /\ pc' = "loop"
               /\ UNCHANGED <<exit_status, err>>
          ELSE /\ Exit(1)
               /\ err' = Error("put_role_policy", out)
               /\ UNCHANGED <<role_has_policy, iam_result, role_scope>>
    /\ UNCHANGED <<dry_run, idx, role_exists, policies,
                   policy0, backups, snap, locations, tasks, created_resources,
                   step, attempt, outcomes, slept, deletes, results,
                   max_retries, retry_result, merge_count, after_first, failed, lookup, verify>>

----------------------------------------------------------------------------
(* main: the migration loop *)

\* raise inside the loop's try block: caught at "except Exception as e"
Raise(e) == pc' = "mig_failed" /\ err' = e

\* for idx, mig in enumerate(migrations, 1)
LoopHead ==
    /\ pc = "loop"
    /\ IF idx > NumMigs THEN pc' = "report" /\ UNCHANGED snap
       ELSE /\ pc' = IF dry_run THEN "backup" ELSE "verify_source"
            /\ snap' = NoSnap
    /\ UNCHANGED <<dry_run, idx, role_exists, role_has_policy, iam_result,
                   policies, policy0, backups, locations, tasks,
                   created_resources, step, attempt, outcomes, slept, err,
                   deletes, results, issued, exit_status, max_retries,
                   retry_result, merge_count, after_first, failed, lookup, verify, role_scope>>

\* faulty order: the destination bucket is not verified
NextOfVerify_source_only(typ) == "backup"

NextOfVerify(typ) == IF typ = "source" THEN "verify_dest" ELSE "backup"

\* faulty gate: an unreachable bucket does not stop the migration
verify_gate_ignore(ret, typ) == NoErr

\* main: if not verify_bucket_access(...): raise ValueError(...)
verify_gate(ret, typ) ==
    IF ret THEN NoErr ELSE Error("verify_" \o typ, "ValueError")

VerifyBucket(typ) ==
    /\ pc = "verify_" \o typ
    /\ issued' = issued \cup {<<"head_bucket", idx, typ>>}
    /\ \E out \in HeadOutcomes :
          LET r == verify_bucket_access(out) IN
          /\ verify' = [out |-> out, ret |-> r.ret, raised |-> r.raised]
          /\ IF r.raised # NoErr THEN Raise(r.raised)
             ELSE IF verify_gate(r.ret, typ) # NoErr
                  THEN Raise(verify_gate(r.ret, typ))
             ELSE pc' = NextOfVerify(typ) /\ UNCHANGED err
    /\ UNCHANGED <<dry_run, idx, role_exists, role_has_policy, iam_result,
                   policies, policy0, backups, snap, locations, tasks,
                   created_resources, step, attempt, outcomes, slept, deletes,
                   results, exit_status, max_retries, retry_result, merge_count,
                   after_first, failed, lookup, role_scope>>

\* faulty guard: the backup runs in dry-run mode too
backup_skipped_never(dry) == FALSE

\* backup_policies skips everything in dry-run mode
backup_skipped(dry) == dry

\* backup_policies up to backup_dir.mkdir
BackupStart ==
    /\ pc = "backup"
    /\ IF backup_skipped(dry_run) THEN pc' = "upd_source" /\ UNCHANGED err
       ELSE \E mk \in {"ok", "OSError"} :
               IF mk = "ok" THEN pc' = "bak_source" /\ UNCHANGED err
               ELSE Raise(Error("mkdir", mk))
    /\ UNCHANGED <<dry_run, idx, role_exists, role_has_policy, iam_result,
                   policies, policy0, backups, snap, locations, tasks,
                   created_resources, step, attempt, outcomes, slept, deletes,
                   results, issued, exit_status, max_retries, retry_result,
                   merge_count, after_first, failed, lookup, verify, role_scope>>

GetOutcomes == {"ok"} \cup OtherClientCodes \cup NonClientErrors

\* One iteration of backup_policies' loop over the two buckets: the result
\* of the read (what = "saved", "absent", "unread" or "raise") and the file.
backup_bucket(text, getOut, writeOut) ==
    IF getOut = "ok" /\ text.present
    THEN (IF writeOut = "ok"
          THEN [what |-> "saved", file |-> json_dumps_indent2(json_loads(text)),
                raised |-> NoErr]
          ELSE [what |-> "raise", file |-> Absent,
                raised |-> Error("write_text", writeOut)])
    ELSE IF getOut = "ok"
    THEN [what |-> "absent", file |-> Absent, raised |-> NoErr]
    ELSE IF getOut \in ClientErrorCodes
    THEN [what |-> "unread", file |-> Absent, raised |-> NoErr]
    ELSE [what |-> "raise", file |-> Absent,
          raised |-> Error("get_bucket_policy", getOut)]

NextOfBackup(typ) == IF typ = "source" THEN "bak_dest" ELSE "bak_script"

BackupBucket(typ) ==
    /\ pc = "bak_" \o typ
    /\ issued' = issued \cup {<<"get_bucket_policy", idx, typ>>}
    /\ \E g \in GetOutcomes, w \in {"ok", "OSError"} :
          LET r == backup_bucket(policies[<<idx, typ>>], g, w) IN
          IF r.what = "raise" THEN Raise(r.raised) /\ UNCHANGED <<backups, snap>>
          ELSE /\ pc' = NextOfBackup(typ)
               /\ backups' = [backups EXCEPT ![idx][typ] = r.file]
               /\ snap' = [snap EXCEPT ![typ] = r.what]
               /\ UNCHANGED err
    /\ UNCHANGED <<dry_run, idx, role_exists, role_has_policy, iam_result,
                   policies, policy0, locations, tasks, created_resources, step,
                   attempt, outcomes, slept, deletes, results, exit_status,
                   max_retries, retry_result, merge_count, after_first, failed, lookup, verify, role_scope>>

\* write restore.py and make it executable
BackupScript ==
    /\ pc = "bak_script"
    /\ \E w \in {"ok", "OSError"} :
          IF w = "ok"
          THEN /\ backups' = [backups EXCEPT ![idx].restore = TRUE]
               /\ pc' = "upd_source"
               /\ UNCHANGED err
          ELSE Raise(Error("write_text", w)) /\ UNCHANGED backups
    /\ UNCHANGED <<dry_run, idx, role_exists, role_has_policy, iam_result,
                   policies, policy0, snap, locations, tasks, created_resources,
                   step, attempt, outcomes, slept, deletes, results, issued,
                   exit_status, max_retries, retry_result, merge_count,
                   after_first, failed, lookup, verify, role_scope>>

NextOfUpdate(typ) == IF typ = "source" THEN "upd_dest" ELSE "create"

UpdatePolicy(typ) ==
    /\ pc = "upd_" \o typ
    /\ \E g \in GetOutcomes, p \in MutOutcomes :
          LET r == update_policy(policies, <<idx, typ>>, iam_result.arn, dry_run, g, p) IN
          /\ policies' = r.policies
          /\ issued' = issued \cup {<<op, idx, typ>> : op \in r.ops}
          /\ IF r.raised # NoErr THEN Raise(r.raised)
             ELSE pc' = NextOfUpdate(typ) /\ UNCHANGED err
    /\ UNCHANGED <<dry_run, idx, role_exists, role_has_policy, iam_result,
                   policy0, backups, snap, locations, tasks, created_resources,
                   step, attempt, outcomes, slept, deletes, results,
                   exit_status, max_retries, retry_result, merge_count,
                   after_first, failed, lookup, verify, role_scope>>

----------------------------------------------------------------------------
(* create_datasync *)

Reverse(s) == [i \in 1 .. Len(s) |-> s[Len(s) + 1 - i]]

CreateOp(k) == IF k = 3 THEN "create_task" ELSE "create_location_s3"
CreateTyp(k) == IF k = 1 THEN "source" ELSE IF k = 2 THEN "dest" ELSE "-"

TaskArn(i, dry) == [dryrun |-> dry, mig |-> IF dry THEN 0 ELSE i]
MigResult(i, dry) == [mig |-> i, task |-> TaskArn(i, dry), bak_dir |-> i]

\* create_datasync returns at once in dry-run mode
create_skipped(dry) == dry

\* entry of create_datasync; in dry-run mode main appends the result at once
CreateStart ==
    /\ pc = "create"
    /\ IF create_skipped(dry_run)
       THEN /\ results' = Append(results, MigResult(idx, TRUE))
            /\ idx' = idx + 1
            /\ pc' = "loop"
            /\ UNCHANGED <<created_resources, step, attempt, outcomes, slept, deletes>>
       ELSE /\ created_resources' = <<>>
            /\ step' = 1
            /\ attempt' = 0
            /\ outcomes' = <<>>
            /\ slept' = <<>>
            /\ deletes' = <<>>
            /\ pc' = "creating"
            /\ UNCHANGED <<results, idx>>
    /\ UNCHANGED <<dry_run, role_exists, role_has_policy, iam_result, policies,
                   policy0, backups, snap, locations, tasks, err, issued,
                   exit_status, max_retries, retry_result, merge_count,
                   after_first, failed, lookup, verify, role_scope>>

CreateOutcomes == {"ok", "Throttling"} \cup OtherClientCodes \cup NonClientErrors

\* faulty record: only the last location created is remembered
record_created_last_only(created, k, arn) ==
    IF k < 3 THEN << <<"location", arn>> >> ELSE created

\* the rollback list after creation step k succeeded
record_created(created, k, arn) ==
    IF k < 3 THEN Append(created, <<"location", arn>>) ELSE created

\* one attempt of the creation call of the current step, under retry_with_backoff
CreateAttempt ==
    /\ pc = "creating"
    /\ issued' = issued \cup {<<CreateOp(step), idx, CreateTyp(step)>>}
    /\ \E out \in CreateOutcomes :
          LET r == retry_with_backoff(attempt, DefaultMaxRetries, out) IN
          CASE r.next = "return" /\ step < 3 ->
                  /\ locations' = locations \cup {<<idx, CreateTyp(step)>>}
                  /\ created_resources' =
                        record_created(created_resources, step, <<idx, CreateTyp(step)>>)
                  /\ step' = step + 1
                  /\ attempt' = 0
                  /\ outcomes' = <<>>
                  /\ slept' = <<>>
                  /\ UNCHANGED <<pc, tasks, results, idx, err>>
            [] r.next = "return" /\ step = 3 ->
                  /\ tasks' = tasks \cup {idx}
                  /\ results' = Append(results, MigResult(idx, FALSE))
                  /\ idx' = idx + 1
                  /\ pc' = "loop"
                  /\ created_resources' = <<>>
                  /\ step' = 0
                  /\ attempt' = 0
                  /\ outcomes' = <<>>
                  /\ slept' = <<>>
                  /\ UNCHANGED <<locations, err>>
            [] r.next = "continue" ->
                  /\ attempt' = attempt + 1
                  /\ outcomes' = Append(outcomes, out)
                  /\ slept' = Append(slept, r.wait)
                  /\ UNCHANGED <<pc, locations, tasks, created_resources, step,
                                 results, idx, err>>
            [] r.next = "raise" ->
                  /\ pc' = "rollback"
                  /\ err' = Error(CreateOp(step), out)
                  /\ outcomes' = Append(outcomes, out)
                  /\ UNCHANGED <<locations, tasks, created_resources, step, attempt,
                                 slept, results, idx>>
    /\ UNCHANGED <<dry_run, role_exists, role_has_policy, iam_result, policies,
                   policy0, backups, snap, deletes, exit_status, max_retries,
                   retry_result, merge_count, after_first, failed, lookup, verify, role_scope>>

\* faulty rollback: resources are deleted in creation order
rollback_order_forward(created) == created

\* for res_type, res_arn in reversed(created_resources)
rollback_order(created) == Reverse(created)

\* faulty rollback: a failed delete_location is not caught
rollback_delete_escapes(out) ==
    [deleted |-> out = "ok",
     escaped |-> IF out = "ok" THEN NoErr ELSE Error("delete_location", out)]

\* the try/except around one delete_location: whether the location is gone
\* and the exception that leaves the handler (none: it is logged)
rollback_delete(out) == [deleted |-> out = "ok", escaped |-> NoErr]

DeleteOutcomes == MutOutcomes \cup NonClientErrors

RollbackDelete ==
    /\ pc = "rollback"
    /\ Len(deletes) < Len(created_resources)
    /\ LET res == rollback_order(created_resources)[Len(deletes) + 1] IN
       /\ res[1] = "location"
       /\ issued' = issued \cup {<<"delete_location", idx, res[2][2]>>}
       /\ deletes' = Append(deletes, res[2])
       /\ \E out \in DeleteOutcomes :
             LET r == rollback_delete(out) IN
             /\ locations' = IF r.deleted THEN locations \ {res[2]} ELSE locations
             /\ IF r.escaped # NoErr THEN Raise(r.escaped)
                ELSE UNCHANGED <<pc, err>>
    /\ UNCHANGED <<dry_run, idx, role_exists, role_has_policy, iam_result,
                   policies, policy0, backups, snap, tasks, created_resources,
                   step, attempt, outcomes, slept, results, exit_status,
                   max_retries, retry_result, merge_count, after_first, failed, lookup, verify, role_scope>>

\* faulty rollback: the migration's bucket policies are put back as well
rollback_policies_revert(pols, pols0, i) ==
    [b \in Buckets |-> IF b[1] = i THEN pols0[b] ELSE pols[b]]

\* the bucket policies after the rollback handler of migration i: it only
\* deletes locations, the policies are what they were
rollback_policies(pols, pols0, i) == pols

\* "raise": the original exception leaves create_datasync
RollbackRaise ==
    /\ pc = "rollback"
    /\ Len(deletes) = Len(created_resources)
    /\ pc' = "mig_failed"
    /\ policies' = rollback_policies(policies, policy0, idx)
    /\ UNCHANGED <<dry_run, idx, role_exists, role_has_policy, iam_result,
                   policy0, backups, snap, locations, tasks,
                   created_resources, step, attempt, outcomes, slept, err,
                   deletes, results, issued, exit_status, max_retries,
                   retry_result, merge_count, after_first, failed, lookup, verify, role_scope>>

----------------------------------------------------------------------------
(* main: handlers and exit *)

\* faulty handler: "continue" instead of "break"
after_exception_continue(i) == [pc |-> "loop", idx |-> i + 1]

\* except Exception as e: log and break
after_exception(i) == [pc |-> "report", idx |-> i]

MigFailed ==
    /\ pc = "mig_failed"
    /\ failed' = idx
    /\ pc' = after_exception(idx).pc
    /\ idx' = after_exception(idx).idx
    /\ UNCHANGED <<dry_run, role_exists, role_has_policy, iam_result, policies,
                   policy0, backups, snap, locations, tasks, created_resources,
                   step, attempt, outcomes, slept, err, deletes, results,
                   issued, exit_status, max_retries, retry_result, merge_count,
                   after_first, lookup, verify, role_scope>>

\* final report and sys.exit(0)
Report ==
    /\ pc = "report"
    /\ Exit(0)
    /\ UNCHANGED <<dry_run, idx, role_exists, role_has_policy, iam_result,
                   policies, policy0, backups, snap, locations, tasks,
                   created_resources, step, attempt, outcomes, slept, err,
                   deletes, results, issued, max_retries, retry_result,
                   merge_count, after_first, failed, lookup, verify, role_scope>>

\* faulty handler: create_datasync's rollback also catches the interrupt
interrupt_handler_rollback(at) ==
    IF at = "creating" THEN "create_datasync" ELSE "main"

\* the handler a KeyboardInterrupt raised at position at ends in: it is not
\* an Exception, so no "except Exception" block on the way catches it
interrupt_handler(at) == "main"

\* KeyboardInterrupt: not an Exception, so only main's outer handler sees it
Interrupt ==
    /\ pc # "done"
    /\ IF interrupt_handler(pc) = "main" THEN Exit(1)
       ELSE pc' = "rollback" /\ UNCHANGED exit_status
    /\ err' = Error("main", "KeyboardInterrupt")
    /\ UNCHANGED <<dry_run, idx, role_exists, role_has_policy, iam_result,
                   policies, policy0, backups, snap, locations, tasks,
                   created_resources, step, attempt, outcomes, slept, deletes,
                   results, issued, max_retries, retry_result, merge_count,
                   after_first, failed, lookup, verify, role_scope>>

Next ==
    \/ Startup
    \/ IamGetRole
    \/ IamCreateRole
    \/ IamPutRolePolicy
    \/ LoopHead
    \/ VerifyBucket("source")
    \/ VerifyBucket("dest")
    \/ BackupStart
    \/ BackupBucket("source")
    \/ BackupBucket("dest")
    \/ BackupScript
    \/ UpdatePolicy("source")
    \/ UpdatePolicy("dest")
    \/ CreateStart
    \/ CreateAttempt
    \/ RollbackDelete
    \/ RollbackRaise
    \/ MigFailed
    \/ Report
    \/ Interrupt

Spec == Init /\ [][Next]_vars

----------------------------------------------------------------------------
(* update_policy applied repeatedly to one bucket *)

MergeBucket == <<1, "source">>

Versions == {"2012-10-17", "2008-10-17"}

StmtUniverse ==
    {AllowCI(MergeBucket), NoSidStmt(MergeBucket), StaleBucketStmt(MergeBucket),
     CurrentObjectStmt(MergeBucket)}

SeqsUpTo(S, n) == UNION {[1 .. k -> S] : k \in 0 .. n}

MergeInputs ==
    {Absent}
    \cup {Text("raw", Doc(v, "list", items)) :
             v \in Versions, items \in SeqsUpTo(StmtUniverse, MaxStmts)}
    \cup {Text("raw", Doc(v, "object", <<st>>)) : v \in Versions, st \in StmtUniverse}
    \cup {Text("raw", Doc(v, "missing", <<>>)) : v \in Versions}

InitMerge ==
    /\ LocalInit
    /\ pc = "merge"
    /\ dry_run = FALSE
    /\ role_exists = TRUE
    /\ role_has_policy = TRUE
    /\ policies \in {[b \in Buckets |-> IF b = MergeBucket THEN t ELSE Absent] :
                        t \in MergeInputs}
    /\ policy0 = policies
    /\ max_retries = DefaultMaxRetries
    /\ locations = {}
    /\ tasks = {}

\* one call update_policy(s3, MergeBucket, RoleArn, log, dry_run)
MergeCall ==
    /\ pc = "merge"
    /\ merge_count < MaxMergeCalls
    /\ \E g \in GetOutcomes, p \in MutOutcomes :
          LET r == update_policy(policies, MergeBucket, RoleArn, dry_run, g, p) IN
          /\ policies' = r.policies
          /\ issued' = issued \cup {<<op, 1, "source">> : op \in r.ops}
          /\ err' = r.raised
          /\ merge_count' = IF r.raised = NoErr THEN merge_count + 1 ELSE merge_count
          /\ after_first' = IF r.raised = NoErr /\ merge_count = 0
                            THEN r.policies[MergeBucket] ELSE after_first
    /\ UNCHANGED <<pc, dry_run, idx, role_exists, role_has_policy, iam_result,
                   policy0, backups, snap, locations, tasks, created_resources,
                   step, attempt, outcomes, slept, deletes, results,
                   exit_status, max_retries, retry_result, failed, lookup, verify, role_scope>>

NextMerge == MergeCall

SpecMerge == InitMerge /\ [][NextMerge]_vars

----------------------------------------------------------------------------
(* retry_with_backoff applied to an operation with arbitrary answers *)

InitRetry ==
    /\ LocalInit
    /\ pc = "retry"
    /\ dry_run = FALSE
    /\ role_exists = TRUE
    /\ role_has_policy = TRUE
    /\ policies = [b \in Buckets |-> Absent]
    /\ policy0 = policies
    /\ max_retries \in 0 .. MaxRetriesBound
    /\ locations = {}
    /\ tasks = {}

RetryOutcomes == {"ok"} \cup ClientErrorCodes \cup NonClientErrors

\* the body of "for attempt in range(max_retries)"
RetryAttempt ==
    /\ pc = "retry"
    /\ retry_result = "none"
    /\ attempt < max_retries
    /\ \E out \in RetryOutcomes :
          LET r == retry_with_backoff(attempt, max_retries, out) IN
          /\ outcomes' = Append(outcomes, out)
          /\ CASE r.next = "return" ->
                    /\ retry_result' = "returned"
                    /\ UNCHANGED <<attempt, slept, err>>
               [] r.next = "continue" ->
                    /\ attempt' = attempt + 1
                    /\ slept' = Append(slept, r.wait)
                    /\ UNCHANGED <<retry_result, err>>
               [] r.next = "raise" ->
                    /\ retry_result' = "raised"
                    /\ err' = Error("func", out)
                    /\ UNCHANGED <<attempt, slept>>
    /\ UNCHANGED <<pc, dry_run, idx, role_exists, role_has_policy, iam_result,
                   policies, policy0, backups, snap, locations, tasks,
                   created_resources, step, deletes, results, issued,
                   exit_status, max_retries, merge_count, after_first, failed, lookup, verify, role_scope>>

\* the for loop ends without return or raise: the function returns None
RetryFallThrough ==
    /\ pc = "retry"
    /\ retry_result = "none"
    /\ attempt >= max_retries
    /\ retry_result' = "fell_through"
    /\ UNCHANGED <<pc, dry_run, idx, role_exists, role_has_policy, iam_result,
                   policies, policy0, backups, snap, locations, tasks,
                   created_resources, step, attempt, outcomes, slept, err,
                   deletes, results, issued, exit_status, max_retries,
                   merge_count, after_first, failed, lookup, verify, role_scope>>

NextRetry == RetryAttempt \/ RetryFallThrough

SpecRetry == InitRetry /\ [][NextRetry]_vars

----------------------------------------------------------------------------
(* restore.py of a migration's backup directory, run after snapshot and merge *)

\* restore_policies for one bucket: put the backup file back if it exists
restore_bucket(file, putOut) ==
    IF ~file.present THEN [put |-> FALSE, policy |-> Absent, raised |-> NoErr]
    ELSE IF putOut = "ok" THEN [put |-> TRUE, policy |-> file, raised |-> NoErr]
    ELSE [put |-> TRUE, policy |-> Absent, raised |-> Error("put_bucket_policy", putOut)]

InitRestore == Init /\ dry_run = FALSE

\* the operator runs restore.py once both policies of the migration are merged
RestoreStart ==
    /\ pc = "create"
    /\ pc' = "rst_source"
    /\ UNCHANGED <<dry_run, idx, role_exists, role_has_policy, iam_result,
                   policies, policy0, backups, snap, locations, tasks,
                   created_resources, step, attempt, outcomes, slept, err,
                   deletes, results, issued, exit_status, max_retries,
                   retry_result, merge_count, after_first, failed, lookup,
                   verify, role_scope>>

NextOfRestore(typ) == IF typ = "source" THEN "rst_dest" ELSE "rst_done"

RestoreBucket(typ) ==
    /\ pc = "rst_" \o typ
    /\ \E out \in MutOutcomes :
          LET r == restore_bucket(backups[idx][typ], out) IN
          /\ issued' = IF r.put THEN issued \cup {<<"put_bucket_policy", idx, typ>>}
                       ELSE issued
          /\ IF r.raised # NoErr
             THEN /\ pc' = "rst_failed"
                  /\ err' = r.raised
                  /\ UNCHANGED policies
             ELSE /\ pc' = NextOfRestore(typ)
                  /\ policies' = IF r.put THEN [policies EXCEPT ![<<idx, typ>>] = r.policy]
                                 ELSE policies
                  /\ UNCHANGED err
    /\ UNCHANGED <<dry_run, idx, role_exists, role_has_policy, iam_result,
                   policy0, backups, snap, locations, tasks, created_resources,
                   step, attempt, outcomes, slept, deletes, results,
                   exit_status, max_retries, retry_result, merge_count,
                   after_first, failed, lookup, verify, role_scope>>

NextRestore ==
    \/ Startup
    \/ IamGetRole
    \/ IamCreateRole
    \/ IamPutRolePolicy
    \/ LoopHead
    \/ VerifyBucket("source")
    \/ VerifyBucket("dest")
    \/ BackupStart
    \/ BackupBucket("source")
    \/ BackupBucket("dest")
    \/ BackupScript
    \/ UpdatePolicy("source")
    \/ UpdatePolicy("dest")
    \/ RestoreStart
    \/ RestoreBucket("source")
    \/ RestoreBucket("dest")

SpecRestore == InitRestore /\ [][NextRestore]_vars

----------------------------------------------------------------------------
(* several runs of the program, one after the other, on the same account *)

\* the first run is a real one and starts without the role; the source
\* buckets have a policy, the destination buckets have none
InitRuns ==
    /\ Init
    /\ ~dry_run
    /\ ~role_exists
    /\ policies = [b \in Buckets |-> IF b[2] = "source" THEN RunPolicy(b) ELSE Absent]

\* the program is started again after a run that left the role without its
\* permission document: the remote state (role, bucket policies, locations,
\* tasks) is what the earlier runs left, the program's own state starts
\* afresh and backups go to a new directory
Rerun ==
    /\ pc = "done"
    /\ role_exists /\ ~role_has_policy
    /\ pc' = "start"
    /\ dry_run' \in BOOLEAN
    /\ policy0' = policies
    /\ idx' = 1
    /\ iam_result' = NoResult
    /\ backups' = [i \in Migs |-> NoBackup]
    /\ snap' = NoSnap
    /\ created_resources' = <<>>
    /\ step' = 0
    /\ attempt' = 0
    /\ outcomes' = <<>>
    /\ slept' = <<>>
    /\ err' = NoErr
    /\ deletes' = <<>>
    /\ results' = <<>>
    /\ issued' = {}
    /\ exit_status' = -1
    /\ failed' = 0
    /\ lookup' = "none"
    /\ verify' = NoVerify
    /\ UNCHANGED <<role_exists, role_has_policy, policies, locations, tasks,
                   max_retries, retry_result, merge_count, after_first,
                   role_scope>>

\* runs that are not interrupted by the operator; a run whose resource
\* creation fails is not followed into its rollback
NextRuns ==
    \/ Startup
    \/ IamGetRole
    \/ IamCreateRole
    \/ IamPutRolePolicy
    \/ LoopHead
    \/ VerifyBucket("source")
    \/ VerifyBucket("dest")
    \/ BackupStart
    \/ BackupBucket("source")
    \/ BackupBucket("dest")
    \/ BackupScript
    \/ UpdatePolicy("source")
    \/ UpdatePolicy("dest")
    \/ CreateStart
    \/ CreateAttempt
    \/ MigFailed
    \/ Report
    \/ Rerun

SpecRuns == InitRuns /\ [][NextRuns]_vars

----------------------------------------------------------------------------
(* Properties *)

ForeignPositions(items) == {i \in 1 .. Len(items) : ~(items[i].Sid \in ds_sids)}

\* position in items of its k-th statement that is not system-owned
KthForeign(items, k) ==
    CHOOSE i \in ForeignPositions(items) :
        Cardinality({j \in ForeignPositions(items) : j < i}) = k - 1

\* the statements a policy text holds (none when there is no policy)
StatementsOf(text) ==
    IF text.present /\ text.doc.form # "missing" THEN text.doc.items ELSE <<>>

\* C1: the document update_policy writes back holds exactly the N statements
\* of the previous policy whose Sid is not system-owned (statements without
\* Sid included), unchanged and in their relative order, followed by exactly
\* 2 system statements: N + 2 in total, however many system-owned statements
\* the previous policy held.
C1_MergeNonDestructive ==
    merge_count >= 1 =>
        LET before == StatementsOf(policy0[MergeBucket])
            after == StatementsOf(policies[MergeBucket])
            N == Cardinality(ForeignPositions(before))
        IN  /\ policies[MergeBucket].present
            /\ policies[MergeBucket].doc.form = "list"
            /\ Len(after) = N + 2
            /\ \A k \in 1 .. N : after[k] = before[KthForeign(before, k)]
            /\ after[N + 1].Sid = "DataSyncAllowBucketAccess"
            /\ after[N + 2].Sid = "DataSyncAllowObjectAccess"

\* a merge of a policy with 2 foreign statements (one without Sid) around a
\* system-owned one
C1_Witness ==
    /\ merge_count = 1
    /\ StatementsOf(policy0[MergeBucket]) =
          <<NoSidStmt(MergeBucket), StaleBucketStmt(MergeBucket), AllowCI(MergeBucket)>>
    /\ Len(StatementsOf(policies[MergeBucket])) = 4

\* C2: a second update_policy on the same bucket with the same role leaves
\* exactly the document the first one wrote; a policy holding only "AllowCI"
\* ends as AllowCI plus the 2 system statements, without duplicates.
C2_MergeIdempotent ==
    merge_count >= 2 =>
        /\ policies[MergeBucket] = after_first
        /\ StatementsOf(policy0[MergeBucket]) = <<AllowCI(MergeBucket)>> =>
              StatementsOf(policies[MergeBucket]) =
                  <<AllowCI(MergeBucket)>> \o ds_stmts(MergeBucket, RoleArn)

C2_Witness ==
    /\ merge_count = 2
    /\ StatementsOf(policy0[MergeBucket]) = <<AllowCI(MergeBucket)>>
    /\ Len(StatementsOf(policies[MergeBucket])) = 3

\* C3: once get_role has succeeded, setup_iam has returned (role_arn, False)
\* and neither create_role nor put_role_policy is ever issued, in dry-run
\* and in normal mode.
C3_RoleReuse ==
    lookup = "found" =>
        /\ iam_result = [arn |-> RoleArn, created |-> FALSE]
        /\ <<"create_role", 0, "-">> \notin issued
        /\ <<"put_role_policy", 0, "-">> \notin issued

\* a normal run that found the role and configured every migration
C3_Witness ==
    /\ lookup = "found"
    /\ ~dry_run
    /\ pc = "done"
    /\ exit_status = 0
    /\ Len(results) = NumMigs

\* the delete_location calls the rollback issues when creation step k failed
ExpectedDeletes(k) ==
    IF k = 1 THEN <<>>
    ELSE IF k = 2 THEN << <<idx, "source">> >>
    ELSE << <<idx, "dest">>, <<idx, "source">> >>

\* C4: when creation step k of create_datasync (source location, destination
\* location, task) has failed, the rollback issues exactly k - 1
\* delete_location calls, for the resources of steps 1 .. k-1 in reverse
\* creation order.
C4_RollbackComplete ==
    /\ pc = "rollback" =>
          /\ Len(deletes) <= step - 1
          /\ deletes = SubSeq(ExpectedDeletes(step), 1, Len(deletes))
    /\ (pc = "mig_failed" /\ step >= 1) =>
          /\ Len(deletes) = step - 1
          /\ deletes = ExpectedDeletes(step)
          /\ \A i \in 1 .. Len(deletes) :
                <<"delete_location", idx, deletes[i][2]>> \in issued

\* task creation was throttled on all 3 attempts; both locations were deleted
C4_Witness ==
    /\ pc = "mig_failed"
    /\ step = 3
    /\ Len(outcomes) = DefaultMaxRetries
    /\ err = Error("create_task", "Throttling")
    /\ Len(deletes) = 2

\* C5: a delete_location that fails during rollback does not stop the
\* delete calls for the remaining recorded resources, and the exception
\* leaving create_datasync is the creation failure, never a deletion error.
C5_RollbackBestEffort ==
    (pc = "mig_failed" /\ step >= 1) =>
        /\ err.op = CreateOp(step)
        /\ err.code = outcomes[Len(outcomes)]
        /\ Len(deletes) = Len(created_resources)

\* the first delete (destination location) failed, the second was still
\* issued and succeeded, and the task-creation error is what propagates
C5_Witness ==
    /\ pc = "mig_failed"
    /\ step = 3
    /\ <<idx, "dest">> \in locations
    /\ <<idx, "source">> \notin locations
    /\ err = Error("create_task", "AccessDenied")

\* C6: at the end of a run, no location or task created by a migration that
\* failed still exists, whatever the remote failures were.
C6_NoOrphans ==
    (pc = "done" /\ failed # 0) =>
        /\ \A t \in Typs : <<failed, t>> \notin locations
        /\ failed \notin tasks

\* C7: retry_with_backoff calls func until its first answer that is not a
\* throttling error or until max_retries calls were made; it then returns
\* that result or raises that error unchanged.  Throttling on every call
\* gives exactly max_retries calls and that error; another error on the
\* first call gives exactly 1 call.
C7_RetryBound ==
    LET n == Len(outcomes) IN
    /\ n <= max_retries
    /\ \A i \in 1 .. n - 1 : outcomes[i] \in ThrottleCodes
    /\ retry_result = "none" => \A i \in 1 .. n : outcomes[i] \in ThrottleCodes
    /\ retry_result = "returned" => n >= 1 /\ outcomes[n] = "ok"
    /\ retry_result = "raised" =>
          /\ n >= 1
          /\ outcomes[n] # "ok"
          /\ err = Error("func", outcomes[n])
          /\ outcomes[n] \in ThrottleCodes => n = max_retries
    /\ retry_result = "fell_through" => max_retries = 0 /\ n = 0
    /\ (retry_result = "none" /\ max_retries > 0) => n < max_retries

\* 3 throttling answers with max_retries = 3: the third one is raised
C7_Witness ==
    /\ retry_result = "raised"
    /\ max_retries = 3
    /\ outcomes = <<"Throttling", "RequestLimitExceeded", "TooManyRequestsException">>

\* C8: migrations are processed in list order; after a migration failed no
\* remote call is issued for a later one, and the results of the earlier
\* migrations are kept.
C8_FailFast ==
    /\ \A i \in 1 .. Len(results) : results[i].mig = i
    /\ \A c \in issued : c[2] <= Len(results) + 1
    /\ failed # 0 =>
          /\ idx = failed
          /\ Len(results) = failed - 1
          /\ \A c \in issued : c[2] <= failed
          /\ pc \in {"report", "done"}

\* of 3 or more migrations the second failed: one result, exit status 0
C8_Witness ==
    /\ failed = 2
    /\ pc = "done"
    /\ exit_status = 0
    /\ Len(results) = 1
    /\ NumMigs >= 3
    /\ \A c \in issued : c[2] <= 2

MutatingOps ==
    {"create_role", "put_role_policy", "put_bucket_policy", "create_location_s3",
     "create_task", "delete_location"}

\* C9: in dry-run mode no mutating remote call is issued, no bucket policy
\* is read, no backup is written, and every task identifier returned by
\* create_datasync is the synthetic dry-run one.
C9_DryRunNoChange ==
    dry_run =>
        /\ \A c \in issued : c[1] \notin MutatingOps \cup {"get_bucket_policy"}
        /\ backups = [i \in Migs |-> NoBackup]
        /\ policies = policy0
        /\ locations = {} /\ tasks = {}
        /\ \A i \in 1 .. Len(results) : results[i].task = TaskArn(i, TRUE)

\* a complete dry run for a role that does not exist yet
C9_Witness ==
    /\ dry_run
    /\ lookup = "no_such_entity"
    /\ pc = "done"
    /\ exit_status = 0
    /\ Len(results) = NumMigs

\* C10: put_bucket_policy is issued for a bucket of a migration only after
\* the snapshot step has, for both buckets of that migration, saved the
\* policy or established that there is none.
C10_SnapshotBeforeMutation ==
    \A t \in Typs :
        (idx \in Migs /\ <<"put_bucket_policy", idx, t>> \in issued) =>
            \A u \in Typs : snap[u] \in {"saved", "absent"}

\* two policy states are the same: both absent, or the same document
SamePolicy(a, b) == a.present = b.present /\ (a.present => a.doc = b.doc)

\* C11: after snapshot and merge, a completed run of the generated restore
\* procedure returns both buckets of the migration to their pre-change
\* policy state (the same document, or no policy).
C11_RestoreRoundTrip ==
    pc = "rst_done" =>
        \A t \in Typs : SamePolicy(policies[<<idx, t>>], policy0[<<idx, t>>])

\* the verifier returned False for a bucket of the current migration
VerifyFailed == verify.out # "none" /\ ~verify.ret /\ verify.raised = NoErr

Interrupted == err.code = "KeyboardInterrupt"

\* C12 as stated: after the verifier reported a bucket of migration i
\* unreachable, migration i performs no mutating step and the migrations
\* after i are still processed.
C12_VerifyAbortsOnlyOne ==
    (VerifyFailed /\ pc = "done" /\ ~Interrupted /\ failed < NumMigs) =>
        /\ \A c \in issued : c[2] = failed => c[1] \notin MutatingOps
        /\ \E c \in issued : c[2] = failed + 1

\* C12: after the verifier reported a bucket of migration i unreachable,
\* migration i issues nothing but its bucket probes, its policies and backups
\* stay as they were, and the loop stops: no call is issued for a later
\* migration and the run ends with exit status 0.
C12_VerifyAbortsRun ==
    VerifyFailed =>
        /\ Interrupted \/ err.code = "ValueError"
        /\ \A c \in issued : c[2] = idx => c[1] = "head_bucket"
        /\ \A c \in issued : c[2] <= idx
        /\ \A t \in Typs : policies[<<idx, t>>] = policy0[<<idx, t>>]
        /\ backups[idx] = NoBackup
        /\ Len(results) = idx - 1
        /\ pc \in {"mig_failed", "report", "done"}
        /\ (pc = "done" /\ ~Interrupted) => exit_status = 0 /\ failed = idx

\* the destination bucket of migration 1 is unreachable and the run has ended
C12_Witness ==
    /\ VerifyFailed
    /\ err = Error("verify_dest", "ValueError")
    /\ pc = "done"
    /\ failed = 1
    /\ NumMigs >= 2
    /\ <<"head_bucket", 1, "dest">> \in issued
    /\ \A c \in issued : c[2] <= 1

\* C13 as stated: the verifier returns False without raising for 404 and 403,
\* and for every other failure of the probe it raises the underlying error.
C13_VerifierRaisesUnknown ==
    verify.out \notin {"none", "ok"} =>
        IF verify.out \in {"404", "403"}
        THEN ~verify.ret /\ verify.raised = NoErr
        ELSE verify.raised = Error("head_bucket", verify.out)

\* C13: the verifier returns True when the probe succeeds; it returns False
\* without raising when the probe fails with 404, 403 or any other remote
\* (client) error, and main then raises ValueError; only an exception that is
\* not a remote client error reaches the caller as it is.
C13_VerifierClassification ==
    /\ verify.out = "ok" => verify.ret /\ verify.raised = NoErr
    /\ verify.out \in {"404", "403"} \cup ClientErrorCodes =>
          /\ ~verify.ret
          /\ verify.raised = NoErr
          /\ Interrupted \/ err.code = "ValueError"
    /\ verify.out \in NonClientErrors =>
          /\ verify.raised = Error("head_bucket", verify.out)
          /\ Interrupted \/ err = verify.raised

\* the probe failed with a remote error that is neither 404 nor 403, and the
\* verifier returned False
C13_Witness ==
    /\ verify.out = "AccessDenied"
    /\ ~verify.ret
    /\ verify.raised = NoErr
    /\ err.code = "ValueError"
    /\ pc = "mig_failed"

\* C14: with the default configuration (max_retries = 3, base delay = 2) the
\* successive waits of retry_with_backoff on persistent throttling are
\* 2, then 4 (then 8) time units: the i-th wait is the base delay raised to i.
C14_BackoffSchedule ==
    max_retries = DefaultMaxRetries =>
        \A i \in 1 .. Len(slept) : slept[i] = Pow(DefaultBackoff, i)

\* C15: every mutating remote call is retried on throttling: a throttling
\* error of a mutating call fails its step only after the retry policy's
\* max_retries attempts were all throttled.
C15_EveryMutationRetried ==
    (err.op \in MutatingOps /\ err.code \in ThrottleCodes) =>
        /\ Len(outcomes) = DefaultMaxRetries
        /\ \A i \in 1 .. Len(outcomes) : outcomes[i] \in ThrottleCodes

SetupOps == {"get_role", "create_role", "put_role_policy"}

\* C16: setup_iam runs once and before the first migration step: while it has
\* not been entered nothing was issued, it is never entered again, every call
\* of a migration is issued after the role lookup answered (role found, or
\* role absent and then created with its policy attached), the attached policy
\* names the source and destination buckets of all migrations, and an error
\* raised by setup_iam ends the run with status 1 and no migration started.
C16_RoleBeforeMigrations ==
    /\ pc \in {"start", "iam_get"} => lookup = "none" /\ issued = {}
    /\ lookup = "none" => pc \in {"start", "iam_get", "done"}
    /\ pc \in {"iam_create", "iam_put"} =>
          /\ lookup = "no_such_entity"
          /\ ~dry_run
          /\ \A c \in issued : c[2] = 0
    /\ (\E c \in issued : c[2] >= 1) =>
          /\ lookup \in {"found", "no_such_entity"}
          /\ iam_result.arn = RoleArn
          /\ (lookup = "no_such_entity" /\ ~dry_run) =>
                role_exists /\ role_has_policy /\ iam_result.created
    /\ role_scope # NoScope =>
          /\ role_scope.src = {<<i, "source">> : i \in Migs}
          /\ role_scope.dst = {<<i, "dest">> : i \in Migs}
          /\ lookup = "no_such_entity"
    /\ err.op \in SetupOps =>
          /\ pc = "done"
          /\ exit_status = 1
          /\ results = <<>>
          /\ idx = 1
          /\ policies = policy0
          /\ \A c \in issued : c[2] = 0

\* the role was created once for all buckets and the last migration's task
\* was created afterwards
C16_Witness ==
    /\ lookup = "no_such_entity"
    /\ iam_result = [arn |-> RoleArn, created |-> TRUE]
    /\ role_scope = role_policy_resources
    /\ Len(results) = NumMigs
    /\ \E c \in issued : c[1] = "create_task" /\ c[2] = NumMigs

Has(op, i, t) == <<op, i, t>> \in issued

\* the policy of bucket b is the merge of its pre-change policy
Merged(b) ==
    policies[b] =
        json_dumps(MergeStatements(IF policy0[b].present THEN json_loads(policy0[b])
                                   ELSE EmptyDoc, b, RoleArn))

\* C17: within each migration the calls are issued in the order probe source,
\* probe destination, snapshot (read source, read destination, restore
\* script), merge source, merge destination, create source location, create
\* destination location, create task; every call of the current migration
\* other than a probe comes after both probes succeeded, and a location is
\* created only after both merges succeeded.
C17_StepOrder ==
    \A i \in Migs :
        /\ Has("head_bucket", i, "dest") => Has("head_bucket", i, "source")
        /\ Has("get_bucket_policy", i, "source") => Has("head_bucket", i, "dest")
        /\ Has("get_bucket_policy", i, "dest") => Has("get_bucket_policy", i, "source")
        /\ backups[i].restore => Has("get_bucket_policy", i, "dest")
        /\ Has("put_bucket_policy", i, "source") => backups[i].restore
        /\ Has("put_bucket_policy", i, "dest") =>
              Has("put_bucket_policy", i, "source") /\ Merged(<<i, "source">>)
        /\ Has("create_location_s3", i, "source") =>
              /\ Has("put_bucket_policy", i, "dest")
              /\ Merged(<<i, "source">>) /\ Merged(<<i, "dest">>)
        /\ Has("create_location_s3", i, "dest") => Has("create_location_s3", i, "source")
        /\ Has("create_task", i, "-") => Has("create_location_s3", i, "dest")
        /\ (i = idx /\ \E c \in issued : c[2] = i /\ c[1] # "head_bucket") =>
              verify.out = "ok" /\ verify.ret
        /\ i > idx => \A c \in issued : c[2] # i

\* the second migration went through all its steps
C17_Witness ==
    /\ ~dry_run
    /\ Has("create_task", 2, "-")
    /\ 2 \in tasks
    /\ Merged(<<2, "source">>) /\ Merged(<<2, "dest">>)
    /\ backups[2].restore

\* errors raised outside the per-migration try block
OutsideLoop(e) == e.op \in {"startup"} \cup SetupOps

\* C18: a finished run has exit status 0 exactly when it reached the end of
\* the migration loop, also when a migration failed and the loop stopped
\* early with a partial or empty result list; it has exit status 1 exactly
\* when the user interrupted it or an error was raised outside the
\* per-migration handling (startup, role provisioning).
C18_ExitStatus ==
    pc = "done" =>
        /\ exit_status \in {0, 1}
        /\ exit_status = 1 <=> (Interrupted \/ OutsideLoop(err))
        /\ (failed # 0 /\ ~Interrupted) =>
              exit_status = 0 /\ Len(results) = failed - 1
        /\ OutsideLoop(err) => results = <<>> /\ failed = 0

\* the first migration failed in its merge: empty result list, exit status 0
C18_Witness ==
    /\ pc = "done"
    /\ exit_status = 0
    /\ failed = 1
    /\ results = <<>>
    /\ err.op = "put_bucket_policy"

\* what update_policy writes to a bucket that had no policy
FreshPolicy(b) == json_dumps(Doc("2012-10-17", "list", ds_stmts(b, RoleArn)))

\* the bucket of the current migration whose merge is the next one to finish
MergeTarget == IF Has("put_bucket_policy", idx, "source") THEN "dest" ELSE "source"

\* C19: a bucket without a policy is not an error in update_policy: its merge
\* writes the document with the standard version and exactly the 2 system
\* statements and raises nothing; when the read fails with another error,
\* that error is raised and no put_bucket_policy is issued for the bucket,
\* whose policy stays as it was.
C19_AbsentPolicyMerge ==
    /\ err.code # "NoSuchBucketPolicy"
    /\ \A b \in Buckets :
          ~policy0[b].present => policies[b] \in {Absent, FreshPolicy(b)}
    /\ (~dry_run /\ pc = "upd_dest" /\ ~policy0[<<idx, "source">>].present) =>
          policies[<<idx, "source">>] = FreshPolicy(<<idx, "source">>)
    /\ (~dry_run /\ pc = "create" /\ ~policy0[<<idx, "dest">>].present) =>
          policies[<<idx, "dest">>] = FreshPolicy(<<idx, "dest">>)
    /\ (err.op = "get_bucket_policy" /\ backups[idx].restore) =>
          /\ err.code \in GetOutcomes \ {"ok"}
          /\ ~Has("put_bucket_policy", idx, MergeTarget)
          /\ policies[<<idx, MergeTarget>>] = policy0[<<idx, MergeTarget>>]
          /\ ~Has("put_bucket_policy", idx, "dest")

\* the source bucket of migration 1 had no policy and now holds exactly the
\* 2 system statements; no error was raised
C19_Witness ==
    /\ ~policy0[<<1, "source">>].present
    /\ policies[<<1, "source">>] = FreshPolicy(<<1, "source">>)
    /\ Len(StatementsOf(policies[<<1, "source">>])) = 2
    /\ pc = "upd_dest"
    /\ idx = 1
    /\ err = NoErr

\* C20 as stated: when the locations were created and the task creation
\* failed, exactly one delete_location call is issued before the task-create
\* error is re-raised.
C20_OneDeleteOnTaskFailure ==
    (pc = "mig_failed" /\ err.op = "create_task") => Len(deletes) = 1

\* C20: the task is created only after both locations; when its creation
\* fails, both locations are on record, exactly two delete_location calls are
\* issued (destination, then source) and the error that leaves
\* create_datasync is the task-create error.
C20_TwoDeletesOnTaskFailure ==
    err.op = "create_task" =>
        /\ step = 3
        /\ created_resources =
              << <<"location", <<idx, "source">> >>, <<"location", <<idx, "dest">> >> >>
        /\ err.code = outcomes[Len(outcomes)]
        /\ idx \notin tasks
        /\ pc \in {"rollback", "mig_failed", "report", "done"}
        /\ pc = "rollback" =>
              deletes = SubSeq(<< <<idx, "dest">>, <<idx, "source">> >>, 1, Len(deletes))
        /\ pc # "rollback" =>
              /\ deletes = << <<idx, "dest">>, <<idx, "source">> >>
              /\ Has("delete_location", idx, "dest")
              /\ Has("delete_location", idx, "source")

\* task creation failed with an error that is not retried; both locations of
\* the migration were deleted and the error is about to reach main
C20_Witness ==
    /\ pc = "mig_failed"
    /\ err = Error("create_task", "ConnectionError")
    /\ Len(outcomes) = 1
    /\ deletes = << <<idx, "dest">>, <<idx, "source">> >>
    /\ \A t \in Typs : <<idx, t>> \notin locations

\* C21: the step that interrupts the run issues no remote call and changes
\* no location, task, bucket policy, backup, role or rollback record; it
\* ends the run with exit status 1, and nothing happens after it (no
\* delete_location, no other call).
C21_InterruptNoCleanup ==
    [][/\ ~Interrupted
       /\ Interrupted' =>
             /\ pc' = "done"
             /\ exit_status' = 1
             /\ UNCHANGED <<issued, locations, tasks, policies, backups, deletes,
                            created_resources, role_exists, role_has_policy,
                            results>>]_vars

\* interrupted between the creation steps of create_datasync: the source
\* location of the migration exists, is on record, and no delete was issued
C21_Witness ==
    /\ Interrupted
    /\ pc = "done"
    /\ exit_status = 1
    /\ step = 2
    /\ created_resources = << <<"location", <<idx, "source">> >> >>
    /\ <<idx, "source">> \in locations
    /\ deletes = <<>>
    /\ \A c \in issued : c[1] # "delete_location"

\* the role exists without its permission document and setup_iam is not
\* about to attach it
HalfProvisioned == role_exists /\ ~role_has_policy /\ pc # "iam_put"

\* C22: when create_role succeeded and put_role_policy failed, the run ends
\* with status 1 and the role is left in place without its permission
\* document; from then on, in every later run, the role stays without it:
\* setup_iam finds the role, returns (role_arn, False) and issues neither
\* create_role nor put_role_policy, while the migrations go on to create
\* locations and tasks with that role.
C22_RoleNeverRepaired ==
    /\ [](/\ err.op = "put_role_policy" =>
                /\ pc = "done"
                /\ exit_status = 1
                /\ role_exists /\ ~role_has_policy
                /\ role_scope = NoScope
                /\ \A c \in issued : c[1] # "delete_role"
          /\ (HalfProvisioned /\ err.op # "put_role_policy") =>
                /\ \A c \in issued : c[1] \notin {"create_role", "put_role_policy"}
                /\ lookup \in {"none", "found", "error"}
                /\ lookup = "found" => iam_result = [arn |-> RoleArn, created |-> FALSE]
                /\ role_scope = NoScope)
    /\ [][HalfProvisioned => HalfProvisioned']_vars

\* a later run found the half-provisioned role, reused it and configured
\* every migration: all tasks exist and the role still has no policy
C22_Witness ==
    /\ HalfProvisioned
    /\ lookup = "found"
    /\ ~dry_run
    /\ pc = "done"
    /\ exit_status = 0
    /\ Len(results) = NumMigs
    /\ tasks = Migs
    /\ \A c \in issued : c[1] # "put_role_policy"

\* the policy of bucket b holds the 2 system statements for the role
HasSystemStatements(b) ==
    LET items == StatementsOf(policies[b]) IN
    \A k \in 1 .. 2 : \E j \in 1 .. Len(items) : items[j] = ds_stmts(b, RoleArn)[k]

RecordedLocations == {created_resources[k][2] : k \in 1 .. Len(created_resources)}

\* the migration's failure path: rollback, the per-migration handler and
\* what follows it
OnFailurePath == pc \in {"rollback", "mig_failed"} \/ failed # 0

\* C23: on the failure path of a migration no bucket policy changes and the
\* only remote calls issued are delete_location calls for locations on the
\* rollback record; so after a failed resource creation both bucket policies
\* of the migration, and after a failed destination merge the source policy,
\* still hold the 2 system statements.
C23_RollbackKeepsPolicies ==
    /\ []((step >= 1 /\ OnFailurePath /\ ~Interrupted) =>
             /\ err.op \in {"create_location_s3", "create_task"}
             /\ \A t \in Typs : Merged(<<idx, t>>) /\ HasSystemStatements(<<idx, t>>))
    /\ [][/\ OnFailurePath =>
                /\ policies' = policies
                /\ \A c \in issued' \ issued :
                      /\ c[1] = "delete_location"
                      /\ <<c[2], c[3]>> \in RecordedLocations
          /\ (pc = "upd_dest" /\ pc' = "mig_failed") =>
                /\ policies' = policies
                /\ Merged(<<idx, "source">>)' /\ HasSystemStatements(<<idx, "source">>)'
                /\ issued' \ issued \subseteq
                      {<<op, idx, "dest">> : op \in {"get_bucket_policy", "put_bucket_policy"}}
         ]_vars

\* task creation failed, both locations were rolled back, the run has ended,
\* and both buckets of the migration still carry the merged policy
C23_Witness ==
    /\ pc = "done"
    /\ failed = 1
    /\ step = 3
    /\ err.op = "create_task"
    /\ Len(deletes) = 2
    /\ \A t \in Typs :
          /\ <<1, t>> \notin locations
          /\ HasSystemStatements(<<1, t>>)
          /\ policies[<<1, t>>] # policy0[<<1, t>>]

====
